---- MODULE Spec2Model ----
(***************************************************************************)
(* BMO assistant (src/main.py): startup, the interactive loop (run_cli),   *)
(* the windowed front-end (run_gui) with its background workers and the    *)
(* Tk event thread, and the voice pipeline (record_audio_wav,              *)
(* transcribe_microphone, ask_chatbot).                                    *)
(*                                                                         *)
(* Strings are sequences of one-character strings so that str.strip() and  *)
(* str.lower() are computed, not assumed.                                  *)
(***************************************************************************)
EXTENDS Integers, Sequences, FiniteSets, TLC

\* ------------------------------------------------------------------ bounds
\* Requests (chat or voice) one run of the program may start.
MaxReq == 2

\* ----------------------------------------------------------------- strings
Space == " "

kwQuit == <<"q", "u", "i", "t">>
kwExit == <<"e", "x", "i", "t">>
kwQ == <<"q">>

\* str.lower() on one character, over the letters the inputs use.
LowerChar(c) ==
    CASE c = "Q" -> "q"
      [] c = "U" -> "u"
      [] c = "I" -> "i"
      [] c = "T" -> "t"
      [] c = "E" -> "e"
      [] c = "X" -> "x"
      [] c = "H" -> "h"
      [] OTHER -> c

LowerCaseSensitive(s) == s

\* str.lower()
Lower(s) == [i \in 1..Len(s) |-> LowerChar(s[i])]

RECURSIVE LStrip(_)
LStrip(s) == IF s # <<>> /\ Head(s) = Space THEN LStrip(Tail(s)) ELSE s

RECURSIVE RStrip(_)
RStrip(s) ==
    IF s # <<>> /\ s[Len(s)] = Space THEN RStrip(SubSeq(s, 1, Len(s) - 1)) ELSE s

\* str.strip()
Strip(s) == RStrip(LStrip(s))

\* The set literal of line 106.
ExitKeywords == {kwQuit, kwExit, kwQ}

\* ------------------------------------------------------------------ inputs
\* The upper-case letter of a lower-case one (used only to build inputs).
UpperChar(c) ==
    CASE c = "q" -> "Q"
      [] c = "u" -> "U"
      [] c = "i" -> "I"
      [] c = "t" -> "T"
      [] c = "e" -> "E"
      [] c = "x" -> "X"
      [] OTHER -> c

\* Every spelling of word w in mixed letter case.
CaseVariants(w) ==
    {s \in [1..Len(w) -> {w[i] : i \in 1..Len(w)} \cup {UpperChar(w[i]) : i \in 1..Len(w)}] :
        \A i \in 1..Len(w) : s[i] \in {w[i], UpperChar(w[i])}}

\* A line with optional surrounding blanks.
Padded(s) == {s, <<Space>> \o s \o <<Space, Space>>}

ExitSpellings == UNION {CaseVariants(w) : w \in ExitKeywords}

ExitLines == UNION {Padded(s) : s \in ExitSpellings}

\* Lines that are neither blank nor an exit keyword.
PromptLines ==
    UNION {Padded(s) : s \in {<<"H", "i">>, <<"q", Space, "q">>}}

BlankLines == {<<>>, <<Space, Space>>}

MenuLines == UNION {Padded(s) : s \in {<<"1">>, <<"2">>, <<"3">>}}

StdinLines == ExitLines \cup PromptLines \cup BlankLines \cup MenuLines

\* What input() can deliver: a line, or end-of-input (EOFError).
Line(s) == [kind |-> "line", line |-> s]
EOF == [kind |-> "eof", line |-> <<>>]
Stdin == {Line(s) : s \in StdinLines} \cup {EOF}

\* Before the first input() call.
NoInput == [kind |-> "none", line |-> <<>>]

\* ------------------------------------------------------- remote outcomes
\* message.content of the first choice: absent (None) or a string.
NoContent == [present |-> FALSE, text |-> <<>>]
ChatContents == {NoContent, [present |-> TRUE, text |-> <<Space, "o", "k", Space>>]}

\* transcript.text
Transcripts == {<<Space>>, <<"h", "i", Space>>}

\* Exceptions, by what str(exc) and type(exc) show of them.
ArecordNotFound == "RuntimeError: arecord not found. Install with: sudo apt install alsa-utils"
CalledProcessError == "CalledProcessError: arecord returned non-zero exit status"
FileNotFound == "FileNotFoundError"
MissingKey == "RuntimeError: Set OPENAI_API_KEY first."
EOFError == "EOFError"
APIErrors == {"APIConnectionError"}
NoExc == "none"

\* ------------------------------------------------------------------- state
VARIABLES
    mode,        \* args.mode: "cli" or "gui"
    apiKey,      \* whether OPENAI_API_KEY is set and non-empty
    pc,          \* where the main thread is
    exitStatus,  \* process exit status, -1 while running
    uncaught,    \* the exception that ended the process, if one did
    stdout,      \* what print() wrote, in order
    lastInput,   \* what the most recent input() call delivered
    req,         \* the requests: one per ask/voice call chain
    nreq,        \* requests started so far
    files,       \* temporary files that exist (named by their request)
    chatLog,     \* calls received by the chat service, in order
    widgets,     \* state option of user_entry, send_button, speak_button
    entryText,   \* content of user_entry
    focus,       \* the widget holding the keyboard focus
    output,      \* lines of the output log
    afterQueue,  \* callbacks scheduled with root.after(0, ...), in order
    cbErrors     \* exceptions raised by callbacks (reported by Tk, not logged)

vars == <<mode, apiKey, pc, exitStatus, uncaught, stdout, lastInput, req, nreq,
          files, chatLog, widgets, entryText, focus, output, afterQueue, cbErrors>>

cliVars == <<stdout, lastInput>>
ctlVars == <<widgets, entryText, focus, cbErrors>>
uiVars == <<ctlVars, output>>
guiVars == <<uiVars, afterQueue>>

Reqs == 1..MaxReq

\* A request slot that has not been started. A request holds the locals of the
\* thread that serves it (text, transcript, spoken, reply, exc and whether the
\* name exc is bound), where that thread is (rpc), and what it has done so far:
\* files created, recorder runs, service calls, what shutil.which found, the
\* stage that raised, and whether the statement it has just executed was an
\* unlink that found no file.
NoReq ==
    [front |-> "none", kind |-> "none", rpc |-> "unused", text |-> <<>>,
     transcript |-> <<>>, spoken |-> <<>>, reply |-> <<>>,
     exc |-> NoExc, excBound |-> FALSE, failedAt |-> "none",
     created |-> 0, recorderRuns |-> 0, sttCalls |-> 0, chatCalls |-> 0,
     unlinkedGone |-> FALSE, which |-> "unknown", settled |-> FALSE]

NORMAL == "normal"
DISABLED == "disabled"

Init ==
    /\ mode \in {"cli", "gui"}
    /\ apiKey \in BOOLEAN
    /\ pc = "start"
    /\ exitStatus = -1
    /\ uncaught = NoExc
    /\ stdout = <<>>
    /\ lastInput = NoInput
    /\ req = [r \in Reqs |-> NoReq]
    /\ nreq = 0
    /\ files = {}
    /\ chatLog = <<>>
    /\ widgets = [entry |-> NORMAL, send |-> NORMAL, speak |-> NORMAL]
    /\ entryText = <<>>
    /\ focus = "none"
    /\ output = <<>>
    /\ afterQueue = <<>>
    /\ cbErrors = <<>>

\* ----------------------------------------------------------------- helpers
\* One printed or logged line: what it is, and the text or error it carries.
OutLine(tag, text, exc) == [tag |-> tag, text |-> text, exc |-> exc]

\* The interpreter ends the process on an exception nothing catches.
Die(e) ==
    /\ pc' = "exited"
    /\ exitStatus' = 1
    /\ uncaught' = e

\* main() returns: the process ends with status 0.
ExitOk ==
    /\ pc' = "exited"
    /\ exitStatus' = 0
    /\ UNCHANGED uncaught

\* A fresh request in slot nreq + 1.
StartReq(front, kind, rpc, text) ==
    /\ nreq < MaxReq
    /\ nreq' = nreq + 1
    /\ req' = [req EXCEPT ![nreq + 1] =
                 [NoReq EXCEPT !.front = front, !.kind = kind, !.rpc = rpc, !.text = text]]

\* --------------------------------------------------------------- startup
ClientWithoutKeyCheck == TRUE

\* require_openai_client: os.getenv("OPENAI_API_KEY") is set and non-empty.
require_openai_client == apiKey

\* main(), up to the first point where the chosen front-end waits for input.
main ==
    /\ pc = "start"
    /\ IF ~require_openai_client
         THEN /\ Die(MissingKey)
              /\ UNCHANGED <<stdout, output>>
         ELSE IF mode = "gui"
           THEN \* run_gui: build the window, append_line("BMO: Ready"), mainloop()
                /\ pc' = "mainloop"
                /\ output' = Append(output, OutLine("Ready", <<>>, NoExc))
                /\ UNCHANGED <<exitStatus, uncaught, stdout>>
           ELSE \* run_cli: the banner and the menu, then input("Select mode (1/2): ")
                /\ pc' = "cli_menu"
                /\ stdout' = stdout \o <<OutLine("banner", <<>>, NoExc),
                                         OutLine("menu1", <<>>, NoExc),
                                         OutLine("menu2", <<>>, NoExc)>>
                /\ UNCHANGED <<exitStatus, uncaught, output>>
    /\ UNCHANGED <<mode, apiKey, lastInput, req, nreq, files, chatLog,
                   widgets, entryText, focus, afterQueue, cbErrors>>

\* ------------------------------------------------------ interactive loop
\* run_cli, the mode prompt and the branch taken on it.
run_cli_menu ==
    /\ pc = "cli_menu"
    /\ \E in \in Stdin :
        /\ lastInput' = in
        /\ IF in = EOF
             THEN /\ Die(EOFError)
                  /\ UNCHANGED <<stdout, req, nreq>>
             ELSE LET choice == Strip(in.line) IN
                  IF choice = <<"1">>
                    THEN /\ pc' = "cli_text"
                         /\ UNCHANGED <<exitStatus, uncaught, stdout, req, nreq>>
                  ELSE IF choice = <<"2">>
                    THEN /\ stdout' = Append(stdout, OutLine("recording", <<>>, NoExc))
                         /\ StartReq("cli", "speak", "mktemp", <<>>)
                         /\ pc' = "cli_voice"
                         /\ UNCHANGED <<exitStatus, uncaught>>
                  ELSE /\ stdout' = Append(stdout, OutLine("invalid", <<>>, NoExc))
                       /\ ExitOk
                       /\ UNCHANGED <<req, nreq>>
    /\ UNCHANGED <<mode, apiKey, files, chatLog, guiVars>>

\* run_cli, text mode: one input("You: ") and what the loop does with the line.
run_cli_text ==
    /\ pc = "cli_text"
    /\ \E in \in Stdin :
        /\ lastInput' = in
        /\ IF in = EOF
             THEN /\ Die(EOFError)
                  /\ UNCHANGED <<req, nreq>>
             ELSE LET user_input == Strip(in.line) IN
                  IF Lower(user_input) \in ExitKeywords
                    THEN /\ ExitOk
                         /\ UNCHANGED <<req, nreq>>
                  ELSE IF user_input = <<>>
                    THEN UNCHANGED <<pc, exitStatus, uncaught, req, nreq>>
                  ELSE /\ StartReq("cli", "text", "chat", user_input)
                       /\ pc' = "cli_chat"
                       /\ UNCHANGED <<exitStatus, uncaught>>
    /\ UNCHANGED <<mode, apiKey, stdout, files, chatLog, guiVars>>

\* ------------------------------------------------------------- event queue
\* root.after(0, callback) from worker r: Tk runs zero-delay callbacks in the
\* order they were scheduled.
after(r, cb) == Append(afterQueue, [cb |-> cb, r |-> r])

\* The thread that runs request r is alive.
Alive(r) ==
    \/ req[r].front = "cli" /\ pc \in {"cli_chat", "cli_voice"}
    \/ req[r].front = "gui" /\ pc = "mainloop"

\* ---------------------------------------------------------- chat request
\* The system message of ask_chatbot.
Persona == <<"You are BMO, a friendly Raspberry Pi assistant. Keep answers concise and practical.">>

ChatMessagesWithHistory(prompt) ==
    <<[role |-> "system", content |-> Persona]>>
      \o [i \in 1..Len(chatLog) |-> chatLog[i].messages[Len(chatLog[i].messages)]]
      \o <<[role |-> "user", content |-> prompt]>>

\* messages=[system_message, user_message]
ChatMessages(prompt) ==
    <<[role |-> "system", content |-> Persona], [role |-> "user", content |-> prompt]>>

\* (response.choices[0].message.content or "").strip()
ChatReply(content) == Strip(IF content.present THEN content.text ELSE <<>>)

\* The prompt a request passes to ask_chatbot: the typed text, or the transcript.
PromptOf(r) == IF req[r].kind = "text" THEN req[r].text ELSE req[r].spoken

ChatReturnedAppendsItself(r, reply) ==
    /\ req' = [req EXCEPT ![r].rpc = "finally", ![r].reply = reply,
                          ![r].chatCalls = @ + 1, ![r].unlinkedGone = FALSE]
    /\ output' = Append(output, OutLine("BMO", reply, NoExc))
    /\ UNCHANGED <<stdout, pc, exitStatus, uncaught, afterQueue>>

\* ask_chatbot returned reply: what its caller does next.
ChatReturned(r, reply) ==
    IF req[r].front = "cli"
      THEN \* print(f"BMO: {...}"), then the next prompt (text) or return (voice)
           /\ stdout' = Append(stdout, OutLine("BMO", reply, NoExc))
           /\ req' = [req EXCEPT ![r].rpc = "done", ![r].reply = reply,
                                 ![r].chatCalls = @ + 1, ![r].unlinkedGone = FALSE]
           /\ IF req[r].kind = "text"
                THEN pc' = "cli_text" /\ UNCHANGED <<exitStatus, uncaught>>
                ELSE ExitOk
           /\ UNCHANGED <<afterQueue, output>>
      ELSE \* worker: root.after(0, lambda: append_line(f"BMO: {reply}\n"))
           /\ req' = [req EXCEPT ![r].rpc = "finally", ![r].reply = reply,
                                 ![r].chatCalls = @ + 1, ![r].unlinkedGone = FALSE]
           /\ afterQueue' = after(r, "reply")
           /\ UNCHANGED <<stdout, pc, exitStatus, uncaught, output>>

\* What the caller of the assistant receives when stage st raises e: neither
\* transcribe_microphone nor ask_chatbot has an except clause, and no caller
\* wraps, so the exception object arrives as it was raised.
Report(e, st) == e

\* An exception e reached the caller of the assistant at stage st: run_cli has
\* no handler; the worker's handler binds exc and schedules the error line.
Raised(rq, r, e, st) ==
    IF req[r].front = "cli"
      THEN /\ req' = [rq EXCEPT ![r].rpc = "raised", ![r].exc = Report(e, st),
                                 ![r].failedAt = st,
                                 ![r].chatCalls = IF st = "chat" THEN @ + 1 ELSE @]
           /\ Die(Report(e, st))
           /\ UNCHANGED <<stdout, afterQueue, output>>
      ELSE \* except Exception as exc: root.after(0, lambda: append_line(f"Error: {exc}\n"))
           /\ req' = [rq EXCEPT ![r].rpc = "end_except", ![r].exc = Report(e, st),
                                 ![r].excBound = TRUE, ![r].failedAt = st,
                                 ![r].chatCalls = IF st = "chat" THEN @ + 1 ELSE @]
           /\ afterQueue' = after(r, "error")
           /\ UNCHANGED <<stdout, pc, exitStatus, uncaught, output>>

\* One client.chat.completions.create call as the service sees it: the messages
\* sent, and what came back (an exception, or the first choice's content).
ChatCall(r, raised, content) ==
    [req |-> r, messages |-> ChatMessages(PromptOf(r)), raised |-> raised,
     content |-> content]

\* BMOAssistant.ask_chatbot: one call of the chat service and its outcome.
ask_chatbot(r) ==
    /\ Alive(r)
    /\ req[r].rpc = "chat"
    /\ \/ \E c \in ChatContents :
            /\ chatLog' = Append(chatLog, ChatCall(r, FALSE, c))
            /\ ChatReturned(r, ChatReply(c))
       \/ \E e \in APIErrors :
            /\ chatLog' = Append(chatLog, ChatCall(r, TRUE, NoContent))
            /\ Raised([req EXCEPT ![r].unlinkedGone = FALSE], r, e, "chat")
    /\ UNCHANGED <<mode, apiKey, lastInput, nreq, files, ctlVars>>

\* --------------------------------------------------------- voice request
\* with tempfile.NamedTemporaryFile(suffix=".wav", delete=False): the file is
\* created and closed; its name is unique to the call.
transcribe_microphone_tempfile(r) ==
    /\ Alive(r)
    /\ req[r].rpc = "mktemp"
    /\ files' = files \cup {r}
    /\ req' = [req EXCEPT ![r].rpc = "record", ![r].created = @ + 1]
    /\ UNCHANGED <<mode, apiKey, pc, exitStatus, uncaught, cliVars, nreq, chatLog, guiVars>>

RecordWithoutWhich(found) == TRUE

\* shutil.which("arecord") is not None
ArecordAvailable(found) == found

\* record_audio_wav: the shutil.which test, then subprocess.run(["arecord", ...,
\* str(output_path)], check=True). Exit status 0 leaves the recording at
\* output_path; a non-zero status raises CalledProcessError; an executable
\* that does not exist makes subprocess.run raise FileNotFoundError.
record_audio_wav(r) ==
    /\ Alive(r)
    /\ req[r].rpc = "record"
    /\ \E found \in BOOLEAN, status \in {0, 1} :
        LET rq == [req EXCEPT ![r].which = IF found THEN "found" ELSE "missing"] IN
        IF ~ArecordAvailable(found)
          THEN /\ files' = files
               /\ req' = [rq EXCEPT ![r].rpc = "unlink", ![r].exc = ArecordNotFound,
                                    ![r].failedAt = "which"]
          ELSE IF ~found
            THEN /\ files' = files
                 /\ req' = [rq EXCEPT ![r].rpc = "unlink", ![r].exc = FileNotFound,
                                      ![r].failedAt = "arecord", ![r].recorderRuns = @ + 1]
          ELSE IF status = 0
            THEN /\ files' = files \cup {r}
                 /\ req' = [rq EXCEPT ![r].rpc = "stt", ![r].recorderRuns = @ + 1]
            ELSE /\ files' = files
                 /\ req' = [rq EXCEPT ![r].rpc = "unlink", ![r].exc = CalledProcessError,
                                      ![r].failedAt = "arecord", ![r].recorderRuns = @ + 1]
    /\ UNCHANGED <<mode, apiKey, pc, exitStatus, uncaught, cliVars, nreq, chatLog, guiVars>>

\* temp_path.open("rb") and client.audio.transcriptions.create(...).
transcribe_microphone_create(r) ==
    /\ Alive(r)
    /\ req[r].rpc = "stt"
    /\ IF r \notin files
         THEN req' = [req EXCEPT ![r].rpc = "unlink", ![r].exc = FileNotFound,
                                 ![r].failedAt = "open"]
         ELSE \/ \E t \in Transcripts :
                   req' = [req EXCEPT ![r].rpc = "unlink", ![r].transcript = t,
                                      ![r].sttCalls = @ + 1]
              \/ \E e \in APIErrors :
                   req' = [req EXCEPT ![r].rpc = "unlink", ![r].exc = e,
                                      ![r].failedAt = "transcribe", ![r].sttCalls = @ + 1]
    /\ UNCHANGED <<mode, apiKey, pc, exitStatus, uncaught, cliVars, nreq, files, chatLog, guiVars>>

\* The missing_ok argument of line 87.
missing_ok == TRUE

UnlinkOnSuccessOnly(fs, r) == IF req[r].exc = NoExc THEN fs \ {r} ELSE fs

\* temp_path.unlink(...) in the finally clause: runs on every way out of the try.
FinallyUnlink(fs, r) == fs \ {r}

\* transcribe_microphone returned spoken: what its caller does next.
TranscribeReturned(r, spoken, gone) ==
    IF req[r].front = "cli"
      THEN \* print(f"You (speech): {spoken_text}"), then ask_chatbot(spoken_text)
           /\ stdout' = Append(stdout, OutLine("You (speech)", spoken, NoExc))
           /\ req' = [req EXCEPT ![r].rpc = "chat", ![r].spoken = spoken,
                                 ![r].unlinkedGone = gone]
           /\ UNCHANGED <<pc, exitStatus, uncaught, afterQueue, output>>
      ELSE \* worker: root.after(0, lambda: append_line(f"You (speech): {spoken}"))
           /\ req' = [req EXCEPT ![r].rpc = "chat", ![r].spoken = spoken,
                                 ![r].unlinkedGone = gone]
           /\ afterQueue' = after(r, "speech")
           /\ UNCHANGED <<stdout, pc, exitStatus, uncaught, output>>

ExceptionSwallowed(r, gone) == NoExc

\* The exception in flight when the finally clause is left: the one raised in
\* the try body, or the one unlink raises for a missing file without missing_ok.
ExceptionAfterFinally(r, gone) ==
    IF gone /\ ~missing_ok THEN FileNotFound ELSE req[r].exc

\* The end of transcribe_microphone: the finally clause, then the return of
\* transcript.text.strip() or the pending exception.
transcribe_microphone_finally(r) ==
    /\ Alive(r)
    /\ req[r].rpc = "unlink"
    /\ LET gone == r \notin files
           e == ExceptionAfterFinally(r, gone)
           st == IF gone /\ ~missing_ok THEN "unlink" ELSE req[r].failedAt
       IN  /\ files' = FinallyUnlink(files, r)
           /\ IF e = NoExc
                THEN TranscribeReturned(r, Strip(req[r].transcript), gone)
                ELSE Raised([req EXCEPT ![r].unlinkedGone = gone], r, e, st)
    /\ UNCHANGED <<mode, apiKey, lastInput, nreq, chatLog, ctlVars>>

\* Another process removes the temporary file while the call is using it.
tempfile_removed(r) ==
    /\ Alive(r)
    /\ req[r].rpc \in {"stt", "unlink"}
    /\ r \in files
    /\ files' = files \ {r}
    /\ UNCHANGED <<mode, apiKey, pc, exitStatus, uncaught, cliVars, req, nreq, chatLog, guiVars>>

\* ------------------------------------------------------ windowed front-end
\* What the user may type into the input field.
EntryTexts == {<<Space>>, <<Space, "h">>}

\* append_line(text): output.insert(tk.END, text + "\n")
append_line(log, line) == Append(log, line)

\* set_enabled(enabled): the same state on the entry and both buttons.
set_enabled(enabled) ==
    LET state == IF enabled THEN NORMAL ELSE DISABLED
    IN  [entry |-> state, send |-> state, speak |-> state]

\* user_entry.delete(0, tk.END): a disabled Entry ignores the command.
EntryDelete == IF widgets.entry = NORMAL THEN <<>> ELSE entryText

send_text_unstripped ==
    LET text == entryText IN
    IF text = <<>>
      THEN UNCHANGED <<output, entryText, widgets, req, nreq>>
      ELSE /\ output' = append_line(output, OutLine("You", text, NoExc))
           /\ entryText' = EntryDelete
           /\ widgets' = set_enabled(FALSE)
           /\ StartReq("gui", "text", "chat", text)

\* send_text(): the Send command and the <Return> binding both call it.
send_text ==
    LET text == Strip(entryText) IN
    IF text = <<>>
      THEN UNCHANGED <<output, entryText, widgets, req, nreq>>
      ELSE /\ output' = append_line(output, OutLine("You", text, NoExc))
           /\ entryText' = EntryDelete
           /\ widgets' = set_enabled(FALSE)
           /\ StartReq("gui", "text", "chat", text)

\* speak(): the Speak command.
speak ==
    /\ widgets' = set_enabled(FALSE)
    /\ output' = append_line(output, OutLine("Recording", <<>>, NoExc))
    /\ StartReq("gui", "speak", "mktemp", <<>>)
    /\ UNCHANGED entryText

guiFrame == <<mode, apiKey, pc, exitStatus, uncaught, cliVars, files, chatLog>>

\* The user types into the input field: Tk gives an Entry the focus, and lets
\* its content change, only in state normal.
TypeText(t) ==
    /\ pc = "mainloop"
    /\ widgets.entry = NORMAL
    /\ entryText' = t
    /\ focus' = "entry"
    /\ UNCHANGED <<guiFrame, req, nreq, widgets, output, afterQueue, cbErrors>>

\* A click on Send: Tk runs a Button's command only in state normal.
ClickSend ==
    /\ pc = "mainloop"
    /\ widgets.send = NORMAL
    /\ send_text
    /\ UNCHANGED <<guiFrame, focus, afterQueue, cbErrors>>

\* A click on Speak.
ClickSpeak ==
    /\ pc = "mainloop"
    /\ widgets.speak = NORMAL
    /\ speak
    /\ UNCHANGED <<guiFrame, focus, afterQueue, cbErrors>>

\* user_entry.bind("<Return>", lambda _event: send_text()): Tk delivers the key
\* to the widget holding the focus and runs the binding whatever the widget's
\* state option is (the state only makes the Entry refuse edits).
PressReturn ==
    /\ pc = "mainloop"
    /\ focus = "entry"
    /\ send_text
    /\ UNCHANGED <<guiFrame, focus, afterQueue, cbErrors>>

workerFrame == <<mode, apiKey, pc, exitStatus, uncaught, cliVars, nreq, files, chatLog, uiVars>>

\* worker, leaving the except clause: Python unbinds the name exc there.
worker_end_except(r) ==
    /\ Alive(r)
    /\ req[r].rpc = "end_except"
    /\ req' = [req EXCEPT ![r].rpc = "finally", ![r].excBound = FALSE,
                          ![r].unlinkedGone = FALSE]
    /\ UNCHANGED <<workerFrame, afterQueue>>

\* What is left of a worker once its thread has ended: the variables its
\* scheduled lambdas still refer to.
ThreadEnded(rec) ==
    [NoReq EXCEPT !.front = rec.front, !.kind = rec.kind, !.rpc = "done",
                  !.spoken = rec.spoken, !.reply = rec.reply,
                  !.exc = rec.exc, !.excBound = rec.excBound]

\* What is left once the last lambda of a worker has run.
Settled(rec) ==
    [NoReq EXCEPT !.front = rec.front, !.kind = rec.kind, !.rpc = "done", !.settled = TRUE]

ScheduleEnableOnSuccessOnly(r) ==
    IF req[r].exc = NoExc THEN after(r, "enable") ELSE afterQueue

\* finally: root.after(0, lambda: set_enabled(True))
ScheduleEnable(r) == after(r, "enable")

\* worker, the finally clause; the thread ends after it.
worker_finally(r) ==
    /\ Alive(r)
    /\ req[r].rpc = "finally"
    /\ afterQueue' = ScheduleEnable(r)
    /\ req' = [req EXCEPT ![r] = ThreadEnded(@)]
    /\ UNCHANGED workerFrame

\* The f-string of the error callback reads exc when the callback runs.
ErrorLambdaReadsExc(r) == req[r].excBound

\* root.mainloop() runs the oldest scheduled callback. A callback that raises is
\* reported by Tk (report_callback_exception) and the loop goes on.
mainloop_callback ==
    /\ pc = "mainloop"
    /\ afterQueue # <<>>
    /\ LET cb == Head(afterQueue).cb
           r == Head(afterQueue).r
       IN  /\ afterQueue' = Tail(afterQueue)
           /\ CASE cb = "speech" ->
                     /\ output' = append_line(output, OutLine("You (speech)", req[r].spoken, NoExc))
                     /\ UNCHANGED <<widgets, cbErrors, req>>
                [] cb = "reply" ->
                     /\ output' = append_line(output, OutLine("BMO", req[r].reply, NoExc))
                     /\ UNCHANGED <<widgets, cbErrors, req>>
                [] cb = "error" ->
                     IF ErrorLambdaReadsExc(r)
                       THEN /\ output' = append_line(output, OutLine("Error", <<>>, req[r].exc))
                            /\ UNCHANGED <<widgets, cbErrors, req>>
                       ELSE /\ cbErrors' = Append(cbErrors, [r |-> r, exc |-> "NameError"])
                            /\ UNCHANGED <<widgets, output, req>>
                [] cb = "enable" ->
                     /\ widgets' = set_enabled(TRUE)
                     /\ req' = [req EXCEPT ![r] = Settled(@)]
                     /\ UNCHANGED <<output, cbErrors>>
    /\ UNCHANGED <<guiFrame, nreq, entryText, focus>>

\* ------------------------------------------------------------ specification
Next ==
    \/ main
    \/ run_cli_menu
    \/ run_cli_text
    \/ \E r \in Reqs : ask_chatbot(r)
    \/ \E r \in Reqs : transcribe_microphone_tempfile(r)
    \/ \E r \in Reqs : record_audio_wav(r)
    \/ \E r \in Reqs : transcribe_microphone_create(r)
    \/ \E r \in Reqs : transcribe_microphone_finally(r)
    \/ \E r \in Reqs : tempfile_removed(r)
    \/ \E t \in EntryTexts : TypeText(t)
    \/ ClickSend
    \/ ClickSpeak
    \/ PressReturn
    \/ \E r \in Reqs : worker_end_except(r)
    \/ \E r \in Reqs : worker_finally(r)
    \/ mainloop_callback

Spec == Init /\ [][Next]_vars

\* One step of the thread that runs request r.
WorkerStep(r) ==
    \/ ask_chatbot(r)
    \/ transcribe_microphone_tempfile(r)
    \/ record_audio_wav(r)
    \/ transcribe_microphone_create(r)
    \/ transcribe_microphone_finally(r)
    \/ worker_end_except(r)
    \/ worker_finally(r)

\* The blocking calls return or raise, every thread gets to run, and the event
\* loop keeps processing its queue.
LiveSpec ==
    /\ Init
    /\ [][Next]_vars
    /\ \A r \in Reqs : WF_vars(WorkerStep(r))
    /\ WF_vars(mainloop_callback)

\* ------------------------------------------------------------------ claims
\* The worker thread of request r has not finished.
WorkerRunning(r) ==
    /\ req[r].front = "gui"
    /\ req[r].rpc \in {"mktemp", "record", "stt", "unlink", "chat", "end_except", "finally"}

\* Request r is inside transcribe_microphone.
InTranscribe(r) == req[r].rpc \in {"mktemp", "record", "stt", "unlink"}

\* Request r has come out of transcribe_microphone and its caller still runs or
\* has been ended by the exception.
TranscribeEnded(r) ==
    /\ req[r].kind = "speak"
    /\ req[r].rpc \in {"chat", "end_except", "finally", "raised"}

\* The chat service received a call for request r.
ChatCalledFor(r) == \E i \in DOMAIN chatLog : chatLog[i].req = r

\* C1: every call of transcribe_microphone creates exactly one temporary file;
\* when the call has ended, by a return or by an exception of any stage, the
\* file is gone; the only files that exist belong to calls still in progress;
\* and the unlink of a file that is already gone does not raise.
C1_TempFileRemoved ==
    /\ \A r \in Reqs :
        /\ req[r].created <= 1
        /\ req[r].rpc \in {"record", "stt", "unlink"} => req[r].created = 1
        /\ TranscribeEnded(r) => req[r].created = 1 /\ r \notin files
        /\ req[r].failedAt # "unlink"
        /\ (req[r].unlinkedGone /\ req[r].sttCalls = 1 /\ req[r].failedAt = "none")
              => req[r].rpc = "chat"
    /\ files \subseteq {r \in Reqs : InTranscribe(r)}

\* C1 witness: a call whose transcription raised has ended, its file had been
\* removed by someone else before the unlink, and no file is left.
C1_Witness ==
    \E r \in Reqs :
        /\ TranscribeEnded(r)
        /\ req[r].failedAt = "transcribe"
        /\ req[r].unlinkedGone
        /\ files = {}

\* C2: while a send_text or speak worker is running, the input field, the send
\* button and the speak button are all disabled.
C2_DisabledWhileRunning ==
    \A r \in Reqs : WorkerRunning(r) => widgets = set_enabled(FALSE)

\* C3: at most one background worker is active at any time.
C3_AtMostOneWorker ==
    Cardinality({r \in Reqs : WorkerRunning(r)}) <= 1

\* A request of the windowed front-end has been started.
GuiStarted(r) == req[r].front = "gui" /\ req[r].rpc # "unused"

\* C4: every started request of the windowed front-end eventually has its
\* set_enabled(True) executed, on the success path and on every error path, and
\* the controls are never left disabled forever.
C4_EventuallyReenabled ==
    /\ \A r \in Reqs : GuiStarted(r) ~> req[r].settled
    /\ (widgets = set_enabled(FALSE)) ~> (widgets = set_enabled(TRUE))

\* C4 witness: a request whose error callback failed has settled and the
\* controls are enabled again.
C4_Witness ==
    /\ cbErrors # <<>>
    /\ req[cbErrors[1].r].settled
    /\ widgets = set_enabled(TRUE)

\* C5: an exception raised by ask_chatbot or transcribe_microphone inside a
\* worker always ends up as an "Error: ..." line of the output log; it never
\* surfaces as a failure of the scheduled callback instead.
C5_ErrorLineNeverLost ==
    cbErrors = <<>>

\* C6: if the transcription call of a voice request fails, the request fails
\* and the chat service is never called for it.
C6_NoChatAfterFailedTranscription ==
    \A r \in Reqs :
        req[r].failedAt = "transcribe" =>
            /\ req[r].rpc \in {"unlink", "end_except", "finally", "raised"}
            /\ req[r].exc \in APIErrors
            /\ req[r].chatCalls = 0
            /\ ~ChatCalledFor(r)
            /\ req[r].front = "cli" /\ req[r].rpc = "raised" => exitStatus = 1

\* C6 witness: a worker's transcription call has failed and the worker is in
\* its exception handler.
C6_Witness ==
    \E r \in Reqs :
        /\ req[r].front = "gui"
        /\ req[r].failedAt = "transcribe"
        /\ req[r].sttCalls = 1
        /\ req[r].rpc = "end_except"

\* C7: if arecord is not found, the voice request fails with the error that
\* tells how to install it, the recorder process is not started and neither the
\* transcription nor the chat service is called.
C7_MissingRecorderFailsFirst ==
    \A r \in Reqs :
        req[r].which = "missing" =>
            /\ req[r].exc = ArecordNotFound
            /\ req[r].rpc \in {"unlink", "end_except", "finally", "raised"}
            /\ req[r].recorderRuns = 0
            /\ req[r].sttCalls = 0
            /\ req[r].chatCalls = 0
            /\ ~ChatCalledFor(r)

\* C7 witness: a voice request of the interactive loop has failed because
\* arecord is missing.
C7_Witness ==
    \E r \in Reqs :
        /\ req[r].which = "missing"
        /\ req[r].rpc = "raised"
        /\ uncaught = ArecordNotFound

\* C8: in the interactive loop an error raised by a recording, transcription or
\* chat call does not end the process; in text mode the loop prompts again.
C8_CliErrorCaught ==
    \A r \in Reqs :
        (req[r].front = "cli" /\ req[r].exc # NoExc) =>
            /\ exitStatus # 1
            /\ req[r].kind = "text" => pc = "cli_text"

\* C9: a line that spells quit, exit or q in any letter case, with or without
\* surrounding blanks, read at the "You: " prompt ends the loop with no chat
\* call for that line, and no chat call follows the end of the loop.
C9_ExitKeywordEndsLoop ==
    [][/\ (pc = "cli_text" /\ lastInput'.kind = "line" /\ lastInput'.line \in ExitLines)
            => (pc' = "exited" /\ exitStatus' = 0 /\ chatLog' = chatLog /\ nreq' = nreq)
       /\ pc = "exited" => (chatLog' = chatLog /\ pc' = "exited")]_vars

\* C9 witness: the loop has ended on " QuIt  " after an earlier chat call.
C9_Witness ==
    /\ pc = "exited"
    /\ exitStatus = 0
    /\ lastInput = Line(<<Space, "Q", "u", "I", "t", Space, Space>>)
    /\ Len(chatLog) = 1

\* C10: end-of-input at the mode prompt or at a "You: " prompt ends the
\* interactive loop cleanly, with exit status 0.
C10_EofExitsCleanly ==
    lastInput = EOF => (pc = "exited" /\ exitStatus = 0)

\* A run of n spaces.
Spaces(n) == [i \in 1..n |-> Space]

\* t is s without its leading and trailing spaces.
IsTrimOf(t, s) ==
    /\ t = <<>> \/ (t[1] # Space /\ t[Len(t)] # Space)
    /\ \E i, j \in 0..Len(s) : s = Spaces(i) \o t \o Spaces(j)

\* The prompt the caller of request r handed to ask_chatbot, while the caller
\* still holds it.
HoldsPrompt(r) == req[r].front = "cli" \/ req[r].rpc \in {"finally", "end_except"}

\* C11: whatever turns came before, every ask_chatbot(P) call sends exactly two
\* messages, the fixed system persona and then P as the user message, and
\* nothing of an earlier turn; when the service answers, the caller gets the
\* first choice's content without surrounding whitespace, or the empty string
\* when the content is absent.
C11_TwoMessagesTrimmedReply ==
    \A i \in DOMAIN chatLog :
        LET call == chatLog[i]
            r == call.req
        IN  /\ Len(call.messages) = 2
            /\ call.messages[1] = [role |-> "system", content |-> Persona]
            /\ call.messages[2].role = "user"
            /\ HoldsPrompt(r) => call.messages[2].content = PromptOf(r)
            /\ (~call.raised /\ ~req[r].settled) =>
                  IF call.content.present
                    THEN IsTrimOf(req[r].reply, call.content.text)
                    ELSE req[r].reply = <<>>

\* A second turn after an earlier one, answered without content.
C11_Witness ==
    /\ Len(chatLog) = 2
    /\ ~chatLog[2].raised
    /\ ~chatLog[2].content.present
    /\ HoldsPrompt(chatLog[2].req)
    /\ req[chatLog[2].req].reply = <<>>
    /\ chatLog[2].messages[2].content # <<>>

\* s is empty or consists of whitespace only.
IsBlank(s) == \A k \in DOMAIN s : s[k] = Space

\* C12: in every run of either front-end, ask_chatbot is called only with a
\* prompt that is neither empty nor whitespace-only: no chat call, whether it
\* comes from a typed line or from a transcript, carries a blank user message.
C12_PromptNeverBlank ==
    \A i \in DOMAIN chatLog : ~IsBlank(chatLog[i].messages[2].content)

\* C13: with the API credential missing at startup the process ends with an
\* error before any front-end is shown (no menu line printed, no window and no
\* log line), before any recording and before any remote call, in both modes.
C13_MissingKeyFatalFirst ==
    ~apiKey =>
        /\ pc \in {"start", "exited"}
        /\ pc = "exited" => (exitStatus = 1 /\ uncaught = MissingKey)
        /\ stdout = <<>>
        /\ output = <<>>
        /\ afterQueue = <<>>
        /\ nreq = 0 /\ \A r \in Reqs : req[r] = NoReq
        /\ files = {}
        /\ chatLog = <<>>

\* The windowed front-end was asked for and the process died on the missing key.
C13_Witness ==
    /\ ~apiKey
    /\ mode = "gui"
    /\ pc = "exited"
    /\ uncaught = MissingKey

\* The stage a request record is in: Idle before it starts and once its last
\* call has returned, Recording from the start of transcribe_microphone to the
\* end of arecord, Transcribing while the recording is opened, sent and the
\* call returns its text, Chatting inside ask_chatbot, Failed from the first
\* exception until the request is over.
Stage(rec) ==
    CASE rec.rpc \in {"unused", "done"} -> "Idle"
      [] rec.rpc \in {"mktemp", "record"} -> "Recording"
      [] rec.rpc = "stt" -> "Transcribing"
      [] rec.rpc = "unlink" -> IF rec.failedAt = "none" THEN "Transcribing" ELSE "Failed"
      [] rec.rpc = "chat" -> "Chatting"
      [] rec.rpc = "finally" -> IF rec.exc = NoExc THEN "Idle" ELSE "Failed"
      [] rec.rpc \in {"end_except", "raised"} -> "Failed"

\* The moves of a voice request: forward by one stage, or out by failing.
StageMoves ==
    {<<"Idle", "Recording">>, <<"Recording", "Transcribing">>,
     <<"Transcribing", "Chatting">>, <<"Chatting", "Idle">>,
     <<"Recording", "Failed">>, <<"Transcribing", "Failed">>,
     <<"Chatting", "Failed">>, <<"Failed", "Idle">>}

\* What has been invoked for a voice request matches the stage it is in.
StageCallsOk(rec) ==
    /\ rec.recorderRuns <= 1 /\ rec.sttCalls <= 1 /\ rec.chatCalls <= 1
    /\ rec.sttCalls = 1 => (rec.recorderRuns = 1 /\ rec.failedAt \notin {"which", "arecord", "open"})
    /\ rec.chatCalls = 1 => (rec.sttCalls = 1 /\ rec.failedAt \in {"none", "chat"})
    /\ Stage(rec) = "Recording" => (rec.sttCalls = 0 /\ rec.chatCalls = 0)
    /\ Stage(rec) = "Transcribing" =>
         (rec.recorderRuns = 1 /\ rec.which = "found" /\ rec.chatCalls = 0)
    /\ Stage(rec) = "Chatting" =>
         (rec.sttCalls = 1 /\ rec.chatCalls = 0 /\ rec.failedAt = "none")
    /\ rec.failedAt # "none" => Stage(rec) = "Failed"
    /\ rec.failedAt = "which" => rec.recorderRuns = 0

\* C14: every voice request goes Idle, Recording, Transcribing, Chatting, Idle
\* in that order and leaves the order only by failing; the recorder, the
\* transcription service and the chat service are each invoked at most once
\* per request, a stage starts only after the one before it succeeded, and the
\* first error ends the request, which then goes back to Idle.
C14_StagesInOrder ==
    /\ [](\A r \in Reqs : req[r].kind = "speak" => StageCallsOk(req[r]))
    /\ [][\A r \in Reqs :
            (req'[r].kind = "speak" /\ Stage(req'[r]) # Stage(req[r]))
                => <<Stage(req[r]), Stage(req'[r])>> \in StageMoves]_vars

\* A voice request of the window that went through all three stages.
C14_Witness ==
    \E r \in Reqs :
        /\ req[r].front = "gui" /\ req[r].kind = "speak"
        /\ req[r].rpc = "finally" /\ req[r].exc = NoExc
        /\ req[r].recorderRuns = 1 /\ req[r].sttCalls = 1 /\ req[r].chatCalls = 1

\* The step is taken by a background worker: the position of a running worker
\* thread of the window changes.
IsWorkerStep == \E r \in Reqs : WorkerRunning(r) /\ req'[r].rpc # req[r].rpc

\* C15: a background worker of the window never changes the interface itself:
\* a step of a worker leaves the output log, the enabled state of the controls
\* and the input field as they are and at most adds updates at the end of the
\* event queue; appends to the log and changes of the enabled state happen only
\* in steps of the event thread.
C15_WorkerOnlyEnqueues ==
    [][IsWorkerStep =>
          /\ output' = output
          /\ widgets' = widgets
          /\ entryText' = entryText
          /\ \/ afterQueue' = afterQueue
             \/ /\ Len(afterQueue') = Len(afterQueue) + 1
                /\ SubSeq(afterQueue', 1, Len(afterQueue)) = afterQueue]_vars

\* A worker has handed its reply to the event queue and the log does not show
\* it yet.
C15_Witness ==
    /\ afterQueue # <<>>
    /\ Head(afterQueue).cb = "reply"
    /\ WorkerRunning(Head(afterQueue).r)
    /\ \A k \in DOMAIN output : output[k].tag # "BMO"

\* The interactive loop is in text mode and has read a line that is neither
\* blank nor an exit keyword.
TextLoopEntered == mode = "cli" /\ nreq >= 1 /\ req[1].kind = "text"

\* C16: in the text loop the chat service is called exactly once, in input
\* order, for each non-blank line in front of the first exit keyword: the calls
\* made are those of the non-blank lines read, in the order read and with
\* nothing else in between, every such line has had its call when the next
\* prompt is shown, a blank line never becomes a call, and the loop stops
\* reading only at an exit keyword (or when the input has run out), so that no
\* line in front of the exit keyword is left without its call.
C16_OneCallPerLine ==
    TextLoopEntered =>
        /\ Len(chatLog) <= nreq
        /\ \A i \in DOMAIN chatLog :
              /\ chatLog[i].req = i
              /\ chatLog[i].messages[2].content = req[i].text
              /\ ~IsBlank(req[i].text)
        /\ pc = "cli_text" => Len(chatLog) = nreq
        /\ pc = "exited" =>
              \/ lastInput = EOF
              \/ lastInput.kind = "line" /\ lastInput.line \in ExitLines

\* What the front-end can receive when the transcription call fails.
TranscriptionReports == {Report(c, "transcribe") : c \in APIErrors}

\* C17: the error that ends a voice request reaches the front-end carrying the
\* stage that failed: what a failed chat call delivers is none of the errors a
\* failed transcription delivers, even for the same underlying cause, and what
\* a missing recorder delivers is not what a recorder that exited non-zero
\* delivers.
C17_ErrorNamesStage ==
    \A r \in Reqs :
        /\ (req[r].kind = "speak" /\ req[r].failedAt = "chat")
              => req[r].exc \notin TranscriptionReports
        /\ req[r].failedAt = "which" => req[r].exc # Report(CalledProcessError, "arecord")

\* The event thread runs the oldest scheduled callback in this step.
RunsCallback == pc = "mainloop" /\ afterQueue # <<>> /\ afterQueue' = Tail(afterQueue)

\* The log shows the result line of request r: its reply, or its error.
ResultLineShown(r) ==
    \E k \in DOMAIN output :
        output[k] = IF req[r].exc = NoExc
                      THEN OutLine("BMO", req[r].reply, NoExc)
                      ELSE OutLine("Error", <<>>, req[r].exc)

\* C18: the event thread applies the updates of a worker in the order the
\* worker scheduled them: when the callback that re-enables the controls runs,
\* the result line of its request ("BMO: ..." or "Error: ...") is in the log,
\* and when the reply line of a voice request is appended its
\* "You (speech): ..." line is already there.
C18_ResultBeforeEnable ==
    [][RunsCallback =>
          LET cb == Head(afterQueue).cb
              r == Head(afterQueue).r
          IN  /\ cb = "enable" => ResultLineShown(r)
              /\ (cb = "reply" /\ req[r].kind = "speak") =>
                    \E k \in DOMAIN output :
                        output[k] = OutLine("You (speech)", req[r].spoken, NoExc)]_vars

\* C19: with an empty or whitespace-only input field send_text changes nothing.
\* While the field is blank no step does any of the things send_text does on a
\* non-blank field: no "You: ..." line is appended, no text worker is started,
\* the field keeps its content unless the user types into the enabled field,
\* the controls are disabled only by a Speak request; and no text request ever
\* carries a blank prompt to the chat service.
C19_BlankSendChangesNothing ==
    /\ [](\A r \in Reqs :
            (req[r].front = "gui" /\ req[r].kind = "text" /\ req[r].rpc = "chat")
                => ~IsBlank(req[r].text))
    /\ [][(pc = "mainloop" /\ IsBlank(entryText)) =>
            /\ Len(output') > Len(output) => output'[Len(output')].tag # "You"
            /\ nreq' > nreq => req'[nreq'].kind = "speak"
            /\ entryText' # entryText => (widgets.entry = NORMAL /\ focus' = "entry")
            /\ (widgets' # widgets /\ widgets'.send = DISABLED) =>
                  (nreq' > nreq /\ req'[nreq'].kind = "speak")]_vars

\* The window holds a whitespace-only input field with the focus in it and
\* Send enabled, and nothing but the greeting has happened.
C19_Witness ==
    /\ pc = "mainloop"
    /\ entryText = <<Space>>
    /\ focus = "entry"
    /\ widgets.send = NORMAL
    /\ nreq = 0
    /\ Len(output) = 1
    /\ afterQueue = <<>>

============================================================================
